---- MODULE Spec2Model ----
(***************************************************************************)
(* Model of the YouTube thumbnail assistant services:                      *)
(*   app/services/youtube_client.py  (YouTubeClient)                       *)
(*   app/services/gemini_client.py   (GeminiClient)                        *)
(* Python strings that the code inspects character by character (channel   *)
(* references, handles, titles, generated text) are sequences of           *)
(* one-character strings.  Optional[str] over such strings is None (a      *)
(* distinguished one-element tuple) or the character sequence itself.       *)
(* Opaque strings (urls of thumbnails, error messages, endpoint names) are  *)
(* TLA+ strings; their None is NoneStr.                                     *)
(***************************************************************************)
EXTENDS Integers, Sequences, FiniteSets, TLC

VARIABLES
    genai,            \* module-level name genai: TRUE when the import succeeded
    op,               \* the service call that is running or has ended
    pc,               \* position of the running service call
    api_key,          \* self.api_key of the client serving the request
    channel_url,      \* argument of fetch_thumbnails
    handle,           \* local handle of _resolve_channel_identifier
    channel_id,       \* local channel_id of fetch_thumbnails
    uploads_playlist, \* local uploads_playlist of fetch_thumbnails
    video_ids,        \* local video_ids of _get_latest_videos
    data,             \* JSON body of the last response received
    calls,            \* outbound YouTube Data API requests issued, in order
    thumbnails,       \* list returned by fetch_thumbnails / fetch_single_thumbnail
    title,            \* argument title of propose_new_thumbnail
    idea_text,        \* local idea_text of propose_new_thumbnail
    data_url,         \* local data_url of propose_new_thumbnail
    content_prompt,   \* local content_prompt of propose_new_thumbnail
    response,         \* local response of propose_new_thumbnail
    image_response,   \* local image_response of propose_new_thumbnail
    gen_calls,        \* outbound generation requests issued, in order
    gemini_result,    \* value returned by propose_new_thumbnail
    outcome,          \* "none" | "returned" | "raised"
    error             \* the exception that left the service call

vars == <<genai, op, pc, api_key, channel_url, handle, channel_id, uploads_playlist,
          video_ids, data, calls, thumbnails, title, idea_text, data_url,
          content_prompt, response, image_response, gen_calls, gemini_result,
          outcome, error>>

ytVars == <<channel_url, handle, channel_id, uploads_playlist, video_ids, data,
           calls, thumbnails>>
gemVars == <<title, idea_text, data_url, content_prompt, response, image_response,
            gen_calls, gemini_result>>

----------------------------------------------------------------------------
(* Bounds of the exploration                                               *)

MaxSegs == 2        \* a channel reference is at most this many segments
MaxVideos == 1      \* videos returned by one batched statistics response
MaxTitleLen == 2    \* characters of a title handed to propose_new_thumbnail
MaxCount == 2       \* every counter value 0..MaxCount is tried, next to the listed ones

----------------------------------------------------------------------------
(* Python values                                                           *)

None == <<"<None>">>
NoneStr == "<None>"

\* truthiness of an Optional[str]: None and "" are falsy
Truthy(v) == v # None /\ v # <<>>

Min(a, b) == IF a < b THEN a ELSE b
Max(a, b) == IF a > b THEN a ELSE b

RECURSIVE Flatten(_)
Flatten(ss) == IF ss = <<>> THEN <<>> ELSE Head(ss) \o Flatten(Tail(ss))

SeqsUpTo(S, n) == UNION {[1..k -> S] : k \in 0..n}

\* dict.get(key, default) on dicts modelled as functions
Get(d, k, default) == IF k \in DOMAIN d THEN d[k] ELSE default

----------------------------------------------------------------------------
(* Character classes of the two regular expressions                        *)

Lower == {"a","b","c","d","e","f","g","h","i","j","k","l","m",
          "n","o","p","q","r","s","t","u","v","w","x","y","z"}
Upper == {"A","B","C","D","E","F","G","H","I","J","K","L","M",
          "N","O","P","Q","R","S","T","U","V","W","X","Y","Z"}
Digits == {"0","1","2","3","4","5","6","7","8","9"}
\* re patterns on str are Unicode patterns: \w also matches non-ASCII letters
UnicodeWord == {"é"}

IsWordOrDash(c) == c \in Lower \cup Upper \cup Digits \cup {"_"} \cup UnicodeWord \cup {"-"}
IsHandleChar(c) == c \in Lower \cup Upper \cup Digits \cup {".", "_", "-"}

IdBodyLen == 22     \* {22} in the pattern UC[\w-]{22}
BareMinLen == 24    \* len(url) >= 24

StartsWith(s, p) == Len(s) >= Len(p) /\ SubSeq(s, 1, Len(p)) = p

----------------------------------------------------------------------------
(* YouTubeClient: channel resolution                                       *)

\* does UC[\w-]{22} match url at position i
MatchChannelIdAt(url, i) ==
    /\ i + 1 + IdBodyLen <= Len(url)
    /\ url[i] = "U"
    /\ url[i + 1] = "C"
    /\ \A j \in (i + 2)..(i + 1 + IdBodyLen) : IsWordOrDash(url[j])

\* re.search tries the start positions from i on, left to right, and stops at
\* the first that matches; 0 when none does
SearchChannelId(url, i) ==
    LET starts == {k \in i..Len(url) : MatchChannelIdAt(url, k)}
    IN  IF starts = {} THEN 0
        ELSE CHOOSE k \in starts : \A other \in starts : k <= other

\* the bare-reference test tried before the pattern
ExtractChannelIdBareFirst(url) ==
    LET m == SearchChannelId(url, 1) IN
    IF StartsWith(url, <<"U", "C">>) /\ Len(url) >= BareMinLen THEN url
    ELSE IF m # 0 THEN SubSeq(url, m, m + 1 + IdBodyLen)
    ELSE None

_extract_channel_id(url) ==
    LET m == SearchChannelId(url, 1) IN
    IF m # 0 THEN SubSeq(url, m, m + 1 + IdBodyLen)
    ELSE IF StartsWith(url, <<"U", "C">>) /\ Len(url) >= BareMinLen THEN url
    ELSE None

\* end of the greedy run [A-Za-z0-9._-]+ that starts at position i
HandleRunEnd(value, i) ==
    CHOOSE e \in i..Len(value) :
        /\ \A k \in i..e : IsHandleChar(value[k])
        /\ e = Len(value) \/ ~IsHandleChar(value[e + 1])

\* leftmost position from i on of an "@" followed by at least one handle
\* character; 0 when there is none
SearchHandle(value, i) ==
    LET starts == {k \in i..(Len(value) - 1) :
                      value[k] = "@" /\ IsHandleChar(value[k + 1])}
    IN  IF starts = {} THEN 0
        ELSE CHOOSE k \in starts : \A other \in starts : k <= other

\* str.lstrip("@")
RECURSIVE LStripAt(_)
LStripAt(value) ==
    IF value # <<>> /\ Head(value) = "@" THEN LStripAt(Tail(value)) ELSE value

\* without the startswith("@") fallback
ExtractHandlePatternOnly(value) ==
    LET m == SearchHandle(value, 1) IN
    IF m # 0 THEN SubSeq(value, m + 1, HandleRunEnd(value, m + 1))
    ELSE None

_extract_handle(value) ==
    LET m == SearchHandle(value, 1) IN
    IF m # 0 THEN SubSeq(value, m + 1, HandleRunEnd(value, m + 1))
    ELSE IF StartsWith(value, <<"@">>) THEN LStripAt(value)
    ELSE None

----------------------------------------------------------------------------
(* Exceptions leaving the service calls                                    *)

ErrChannelIdUndetermined == "ValueError: channel id could not be determined, give /channel/<ID> or @username"
ErrHandleNeedsApiKey == "ValueError: search by @username requires YOUTUBE_API_KEY"
ErrApiKeyMissing == "ValueError: YOUTUBE_API_KEY is not set, YouTube Data API unavailable"
ErrChannelNotFound == "ValueError: channel not found or unavailable"
ErrHTTP == "httpx.HTTPError"
ErrGeneration == "generation service exception"
ErrNoText == "ValueError: response.text has no text part"

Raise(e) == pc' = "done" /\ outcome' = "raised" /\ error' = e
Return == pc' = "done" /\ outcome' = "returned" /\ error' = NoneStr
Await(p) == pc' = p /\ outcome' = "none" /\ error' = NoneStr

Call(endpoint, arg) == [endpoint |-> endpoint, arg |-> arg]

Items(d) == Get(d, "items", <<>>)

----------------------------------------------------------------------------
(* YouTubeClient._build_thumbnail_info                                     *)
(* dicts are functions; a dict-valued Optional is <<>> (None) or <<d>>.    *)
(* ctr_score is kept in hundredths: 7200 stands for 72.0.                  *)

EmptyDict == <<>>

OptGet(d, k) == IF k \in DOMAIN d THEN <<d[k]>> ELSE <<>>

\* truthiness of an Optional[dict]: None and {} are falsy
DictTruthy(o) == o # <<>> /\ DOMAIN o[1] # {}

\* Python's  a or b
PyOr(a, b) == IF DictTruthy(a) THEN a ELSE b

BestThumbHighFirst(thumbs) ==
    PyOr(OptGet(thumbs, "high"),
         PyOr(OptGet(thumbs, "maxres"),
              PyOr(OptGet(thumbs, "standard"), OptGet(thumbs, "default"))))

BestThumb(thumbs) ==
    PyOr(OptGet(thumbs, "maxres"),
         PyOr(OptGet(thumbs, "standard"),
              PyOr(OptGet(thumbs, "high"), OptGet(thumbs, "default"))))

ThumbUrl(thumbs) ==
    LET best_thumb == BestThumb(thumbs) IN
    IF DictTruthy(best_thumb) THEN Get(best_thumb[1], "url", NoneStr) ELSE ""

\* float() of a counter, which the API sends as a string of decimal digits
RECURSIVE ParseFloat(_)
ParseFloat(digits) ==
    IF digits = <<>> THEN 0
    ELSE 10 * ParseFloat(SubSeq(digits, 1, Len(digits) - 1)) + digits[Len(digits)]

\* round(n / d, 0) to the nearest integer, ties to the even one
RoundHalfEven(n, d) ==
    LET q == n \div d
        r == n % d
    IN  IF 2 * r < d THEN q
        ELSE IF 2 * r > d THEN q + 1
        ELSE IF q % 2 = 0 THEN q ELSE q + 1

ScaleFactor == 1200

CtrScoreUnclamped(views, likes, comments) ==
    RoundHalfEven((2 * likes + comments) * ScaleFactor * 100, 2 * Max(views, 1))

\* round(min(100, (likes + comments * 0.5) / max(views, 1) * 1200), 2)
CtrScore(views, likes, comments) ==
    LET twice == 2 * likes + comments
        floor == Max(views, 1)
    IN  IF twice * ScaleFactor >= 100 * 2 * floor THEN 100 * 100
        ELSE RoundHalfEven(twice * ScaleFactor * 100, 2 * floor)

Zero == <<0>>

_build_thumbnail_info(item) ==
    LET snippet == Get(item, "snippet", EmptyDict)
        stats == Get(item, "statistics", EmptyDict)
        thumbs == Get(snippet, "thumbnails", EmptyDict)
        views == ParseFloat(Get(stats, "viewCount", Zero))
        likes == ParseFloat(Get(stats, "likeCount", Zero))
        comments == ParseFloat(Get(stats, "commentCount", Zero))
    IN  [video_id |-> Get(item, "id", NoneStr),
         title |-> Get(snippet, "title", "Bez nazvaniya"),
         description |-> Get(snippet, "description", ""),
         thumbnail_url |-> ThumbUrl(thumbs),
         ctr_score |-> CtrScore(views, likes, comments)]

BuildAll(items) == [i \in 1..Len(items) |-> _build_thumbnail_info(items[i])]

----------------------------------------------------------------------------
(* Video records the statistics service can answer with                    *)

TierNames == {"maxres", "standard", "high", "default"}

TierUrl(t) ==
    CASE t = "maxres" -> "maxresdefault.jpg"
      [] t = "standard" -> "sddefault.jpg"
      [] t = "high" -> "hqdefault.jpg"
      [] t = "default" -> "default.jpg"

ThumbDicts == {[t \in D |-> [url |-> TierUrl(t)]] : D \in SUBSET TierNames}

CounterStrings ==
    {<<n>> : n \in 0..MaxCount} \cup {<<7>>, <<2, 0>>, <<5, 0>>, <<1, 0, 0, 0>>}

CounterNames == {"viewCount", "likeCount", "commentCount"}

StatsDicts == UNION {[D -> CounterStrings] : D \in SUBSET CounterNames}

Record(th, st) ==
    [id |-> "v1", snippet |-> [title |-> "T", description |-> "D", thumbnails |-> th],
     statistics |-> st]

ExampleStats ==
    [viewCount |-> <<1, 0, 0, 0>>, likeCount |-> <<5, 0>>, commentCount |-> <<2, 0>>]

\* every tier combination, every counter combination, and records that lack
\* the thumbnails, the snippet or the statistics
VideoRecords ==
    {Record(th, ExampleStats) : th \in ThumbDicts}
    \cup {Record(th, st) : th \in {EmptyDict, [high |-> [url |-> TierUrl("high")]]},
                           st \in StatsDicts}
    \cup {[id |-> "v1", snippet |-> [title |-> "T"], statistics |-> ExampleStats],
          [id |-> "v1", statistics |-> ExampleStats],
          [id |-> "v1", snippet |-> [thumbnails |-> [default |-> [url |-> TierUrl("default")]]]],
          [id |-> "v1"]}

\* the records the batched response of fetch_thumbnails is drawn from
ListedRecords ==
    {[id |-> "v1",
      snippet |-> [title |-> "T", description |-> "D",
                   thumbnails |-> [high |-> [url |-> TierUrl("high")],
                                   default |-> [url |-> TierUrl("default")]]],
      statistics |-> [viewCount |-> <<1, 0, 0, 0>>, likeCount |-> <<5, 0>>,
                      commentCount |-> <<2, 0>>]],
     [id |-> "v2", snippet |-> [title |-> "T"], statistics |-> [likeCount |-> <<1>>]]}

----------------------------------------------------------------------------
(* Inputs of the requests                                                  *)

UrlChannel ==
    <<"h","t","t","p","s",":","/","/","w","w","w",".","y","o","u","t","u","b","e",
      ".","c","o","m","/","c","h","a","n","n","e","l","/">>

\* "UCabcdefghijklmnopqrstu"
ExampleId ==
    <<"U","C","a","b","c","d","e","f","g","h","i","j","k","l","m","n","o","p","q",
      "r","s","t","u">>

\* a channel ID of the full length, "UCabcdefghijklmnopqrstuv"
FoundId == ExampleId \o <<"v">>

Segments == {UrlChannel, ExampleId, FoundId, <<"v">>, <<"!">>, <<"@">>, <<"é">>}

References == {Flatten(s) : s \in SeqsUpTo(Segments, MaxSegs)}

\* os.getenv gives None when the variable is unset and "" when it is set empty
ApiKeys == {None, <<>>, <<"k">>}

HttpError == [status |-> "error"]
Ok(json) == [status |-> "ok", json |-> json]

SearchResponses ==
    {HttpError, Ok(EmptyDict), Ok([items |-> <<>>]),
     Ok([items |-> <<[id |-> EmptyDict]>>]),
     Ok([items |-> <<[id |-> [channelId |-> FoundId]]>>])}

ChannelsResponses ==
    {HttpError, Ok(EmptyDict), Ok([items |-> <<>>]),
     Ok([items |-> <<[contentDetails |-> [relatedPlaylists |-> [uploads |-> "UUx"]]]>>])}

PlaylistEntry(v) == [snippet |-> [resourceId |-> [videoId |-> v]]]

VideoIdAt(i) == IF i = 1 THEN "v1" ELSE "v2"

PlaylistItemsResponses ==
    {HttpError, Ok(EmptyDict)}
    \cup {Ok([items |-> [i \in 1..n |-> PlaylistEntry(VideoIdAt(i))]]) : n \in 0..MaxVideos}

VideosResponses ==
    {HttpError, Ok(EmptyDict)}
    \cup {Ok([items |-> s]) : s \in SeqsUpTo(ListedRecords, MaxVideos)}

SingleResponses ==
    {HttpError, Ok(EmptyDict), Ok([items |-> <<>>])}
    \cup {Ok([items |-> <<r>>]) : r \in VideoRecords}

----------------------------------------------------------------------------
(* YouTubeClient: the service calls                                        *)

\* _get_uploads_playlist up to its request
StartUploadsPlaylist(cid, key, issued) ==
    IF ~Truthy(key)
    THEN Raise(ErrApiKeyMissing) /\ calls' = issued
    ELSE Await("channels") /\ calls' = Append(issued, Call("channels", cid))

\* fetch_thumbnails up to its first request: _resolve_channel_identifier, the
\* check of its result and the start of _get_uploads_playlist
FetchThumbnails(key, url) ==
    /\ pc = "idle"
    /\ op' = "fetch_thumbnails"
    /\ api_key' = key
    /\ channel_url' = url
    /\ LET cid == _extract_channel_id(url)
           h == _extract_handle(url)
       IN  IF Truthy(cid)
           THEN /\ channel_id' = cid
                /\ handle' = None
                /\ StartUploadsPlaylist(cid, key, <<>>)
           ELSE IF Truthy(h)
           THEN /\ handle' = h
                /\ channel_id' = None
                /\ IF ~Truthy(key)
                   THEN Raise(ErrHandleNeedsApiKey) /\ calls' = <<>>
                   ELSE Await("search")
                        /\ calls' = <<Call("search", <<"@">> \o h)>>
           ELSE /\ handle' = h
                /\ channel_id' = None
                /\ calls' = <<>>
                /\ Raise(ErrChannelIdUndetermined)
    /\ UNCHANGED <<genai, uploads_playlist, video_ids, data, thumbnails>>
    /\ UNCHANGED gemVars

\* _fetch_channel_id_by_handle after its request, then the rest of
\* fetch_thumbnails up to the next request
SearchResponds(r) ==
    /\ pc = "search"
    /\ IF r.status = "error"
       THEN Raise(ErrHTTP) /\ UNCHANGED <<data, channel_id, calls>>
       ELSE LET items == Items(r.json)
                cid == IF items = <<>> THEN None
                       ELSE Get(Get(items[1], "id", EmptyDict), "channelId", None)
            IN  /\ data' = r.json
                /\ channel_id' = cid
                /\ IF ~Truthy(cid)
                   THEN Raise(ErrChannelIdUndetermined) /\ UNCHANGED calls
                   ELSE StartUploadsPlaylist(cid, api_key, calls)
    /\ UNCHANGED <<genai, op, api_key, channel_url, handle, uploads_playlist, video_ids,
                   thumbnails>>
    /\ UNCHANGED gemVars

\* _get_uploads_playlist after its request, then _get_latest_videos up to its
\* first request
ChannelsResponds(r) ==
    /\ pc = "channels"
    /\ IF r.status = "error"
       THEN Raise(ErrHTTP) /\ UNCHANGED <<data, uploads_playlist, calls>>
       ELSE /\ data' = r.json
            /\ IF Items(r.json) = <<>>
               THEN Raise(ErrChannelNotFound) /\ UNCHANGED <<uploads_playlist, calls>>
               ELSE LET pl == Items(r.json)[1].contentDetails.relatedPlaylists.uploads
                    IN  /\ uploads_playlist' = pl
                        /\ calls' = Append(calls, Call("playlistItems", <<pl>>))
                        /\ Await("playlistItems")
    /\ UNCHANGED <<genai, op, api_key, channel_url, handle, channel_id, video_ids,
                   thumbnails>>
    /\ UNCHANGED gemVars

\* _get_latest_videos between its two requests
PlaylistItemsResponds(r) ==
    /\ pc = "playlistItems"
    /\ IF r.status = "error"
       THEN Raise(ErrHTTP) /\ UNCHANGED <<data, video_ids, calls, thumbnails>>
       ELSE LET items == Items(r.json)
                ids == [i \in 1..Len(items) |-> items[i].snippet.resourceId.videoId]
            IN  /\ data' = r.json
                /\ video_ids' = ids
                /\ IF ids = <<>>
                   THEN /\ thumbnails' = BuildAll(<<>>)
                        /\ UNCHANGED calls
                        /\ Return
                   ELSE /\ calls' = Append(calls, Call("videos", ids))
                        /\ UNCHANGED thumbnails
                        /\ Await("videos")
    /\ UNCHANGED <<genai, op, api_key, channel_url, handle, channel_id, uploads_playlist>>
    /\ UNCHANGED gemVars

\* _get_latest_videos after its second request, then the list comprehension
\* of fetch_thumbnails
VideosResponds(r) ==
    /\ pc = "videos"
    /\ IF r.status = "error"
       THEN Raise(ErrHTTP) /\ UNCHANGED <<data, thumbnails>>
       ELSE /\ data' = r.json
            /\ thumbnails' = BuildAll(Items(r.json))
            /\ Return
    /\ UNCHANGED <<genai, op, api_key, channel_url, handle, channel_id, uploads_playlist,
                   video_ids, calls>>
    /\ UNCHANGED gemVars

\* fetch_single_thumbnail up to its request; None is the empty list here
FetchSingleThumbnail(key, video_id) ==
    /\ pc = "idle"
    /\ op' = "fetch_single_thumbnail"
    /\ api_key' = key
    /\ IF ~Truthy(key)
       THEN thumbnails' = <<>> /\ calls' = <<>> /\ Return
       ELSE UNCHANGED thumbnails /\ calls' = <<Call("videos", <<video_id>>)>>
            /\ Await("single")
    /\ UNCHANGED <<genai, channel_url, handle, channel_id, uploads_playlist, video_ids,
                   data>>
    /\ UNCHANGED gemVars

\* fetch_single_thumbnail after its request
SingleResponds(r) ==
    /\ pc = "single"
    /\ IF r.status = "error"
       THEN Raise(ErrHTTP) /\ UNCHANGED <<data, thumbnails>>
       ELSE /\ data' = r.json
            /\ thumbnails' = IF Items(r.json) = <<>> THEN <<>>
                             ELSE <<_build_thumbnail_info(Items(r.json)[1])>>
            /\ Return
    /\ UNCHANGED <<genai, op, api_key, channel_url, handle, channel_id, uploads_playlist,
                   video_ids, calls>>
    /\ UNCHANGED gemVars

----------------------------------------------------------------------------
(* GeminiClient                                                            *)

Whitespace == {" "}

RECURSIVE LStrip(_)
LStrip(s) == IF s # <<>> /\ Head(s) \in Whitespace THEN LStrip(Tail(s)) ELSE s

RECURSIVE RStrip(_)
RStrip(s) ==
    IF s # <<>> /\ s[Len(s)] \in Whitespace THEN RStrip(SubSeq(s, 1, Len(s) - 1)) ELSE s

\* str.strip()
Strip(s) == LStrip(RStrip(s))

DescriptionLimit == 500

\* textwrap.fill(text, width=30) of a text that fits one line: the whitespace
\* at the end of the line is dropped, the text is otherwise kept
Fill(text) == RStrip(text)

DefaultPlaceholderText == <<"N","e","w"," ","i","d","e","a">>

\* base64 of the PNG bytes behind the fixed data-url prefix; the encoding is
\* injective, the rendered bytes are identified by what was drawn
DataUrl(bytes) == [prefix |-> "data:image/png;base64,", encoded |-> bytes]

_placeholder_image(text) ==
    LET wrapped == IF Fill(text) # <<>> THEN Fill(text) ELSE DefaultPlaceholderText
    IN  DataUrl([canvas |-> <<1280, 720>>, text |-> wrapped])

_image_to_data_url(image_bytes) == DataUrl(image_bytes)

\* the message asking for GEMINI_API_KEY
FixedMessage == <<"U","s","e"," ","G","E","M","I","N","I","_","A","P","I","_","K","E","Y">>

IdeaDefault(key) == IF ~Truthy(key) THEN FixedMessage ELSE <<>>

UsesGenerationAlways(key) == TRUE

UsesGeneration(key) == Truthy(key) /\ genai

GeminiResult(p, idea, image) == [prompt |-> p, idea |-> idea, image_data_url |-> image]

NoResult == GeminiResult(EmptyDict, <<>>, DataUrl(EmptyDict))

Titles == SeqsUpTo({"a", " "}, MaxTitleLen)
Descriptions == {<<>>, <<"d">>}
OriginalThumbnails == {NoneStr, "", "hqdefault.jpg"}

GeneratedTexts == {<<"i">>, <<" ", "i", " ">>, <<" ">>}

TextResponses ==
    {[status |-> "exception"], [status |-> "timeout"], [status |-> "no text"]}
    \cup {[status |-> "ok", text |-> t] : t \in GeneratedTexts}

GeneratedImage == [generated |-> "image 1"]

\* generated_images of the image response; "not bytes" is a first element
\* that b64encode rejects
ImageResponses ==
    {[status |-> "exception"], [status |-> "timeout"], [status |-> "none"],
     [status |-> "ok", generated_images |-> <<>>],
     [status |-> "ok", generated_images |-> <<GeneratedImage>>],
     [status |-> "not bytes", generated_images |-> <<GeneratedImage>>]}

\* a failed image generation that clears the image instead of keeping it
ImageAfterTryCleared(r, current) ==
    IF r.status = "ok" /\ r.generated_images # <<>>
    THEN _image_to_data_url(r.generated_images[1])
    ELSE DataUrl(EmptyDict)

\* data_url after the try block: an exception anywhere in it, a falsy response
\* or an empty generated_images leaves data_url as it was
ImageAfterTry(r, current) ==
    IF r.status = "ok" /\ r.generated_images # <<>>
    THEN _image_to_data_url(r.generated_images[1])
    ELSE current

\* propose_new_thumbnail up to the text generation
ProposeNewThumbnail(key, t, description, original_thumbnail) ==
    /\ pc = "idle"
    /\ op' = "propose_new_thumbnail"
    /\ api_key' = key
    /\ title' = t
    /\ LET prompt == [title |-> t,
                      description |-> SubSeq(description, 1,
                                             Min(DescriptionLimit, Len(description))),
                      thumbnail |-> IF original_thumbnail \notin {NoneStr, ""}
                                    THEN original_thumbnail ELSE "no link"]
           idea == IdeaDefault(key)
           image == _placeholder_image(t)
       IN  /\ content_prompt' = prompt
           /\ idea_text' = idea
           /\ data_url' = image
           /\ IF UsesGeneration(key)
              THEN /\ gen_calls' = <<"generate_content">>
                   /\ UNCHANGED gemini_result
                   /\ Await("text")
              ELSE /\ gen_calls' = <<>>
                   /\ gemini_result' = GeminiResult(prompt, idea, image)
                   /\ Return
    /\ UNCHANGED <<genai, response, image_response>>
    /\ UNCHANGED ytVars

\* generate_content has answered; response.text.strip(), then the image request
TextGenerationResponds(r) ==
    /\ pc = "text"
    /\ response' = r
    /\ IF r.status = "ok"
       THEN /\ idea_text' = Strip(r.text)
            /\ gen_calls' = Append(gen_calls, "generate_images")
            /\ Await("image")
       ELSE /\ Raise(IF r.status = "no text" THEN ErrNoText ELSE ErrGeneration)
            /\ UNCHANGED <<idea_text, gen_calls>>
    /\ UNCHANGED <<genai, op, api_key, title, data_url, content_prompt, image_response,
                   gemini_result>>
    /\ UNCHANGED ytVars

\* the try block around generate_images has ended; the result is returned
ImageGenerationResponds(r) ==
    /\ pc = "image"
    /\ image_response' = r
    /\ LET image == ImageAfterTry(r, data_url)
       IN  /\ data_url' = image
           /\ gemini_result' = GeminiResult(content_prompt, idea_text, image)
    /\ Return
    /\ UNCHANGED <<genai, op, api_key, title, idea_text, content_prompt, response, gen_calls>>
    /\ UNCHANGED ytVars

----------------------------------------------------------------------------
(* The system                                                              *)

Init ==
    /\ genai \in BOOLEAN
    /\ op = "none"
    /\ pc = "idle"
    /\ api_key = None
    /\ channel_url = <<>>
    /\ handle = None
    /\ channel_id = None
    /\ uploads_playlist = NoneStr
    /\ video_ids = <<>>
    /\ data = EmptyDict
    /\ calls = <<>>
    /\ thumbnails = <<>>
    /\ title = <<>>
    /\ idea_text = <<>>
    /\ data_url = DataUrl(EmptyDict)
    /\ content_prompt = EmptyDict
    /\ response = [status |-> "none"]
    /\ image_response = [status |-> "none"]
    /\ gen_calls = <<>>
    /\ gemini_result = NoResult
    /\ outcome = "none"
    /\ error = NoneStr

Next ==
    \/ \E key \in ApiKeys, url \in References : FetchThumbnails(key, url)
    \/ \E r \in SearchResponses : SearchResponds(r)
    \/ \E r \in ChannelsResponses : ChannelsResponds(r)
    \/ \E r \in PlaylistItemsResponses : PlaylistItemsResponds(r)
    \/ \E r \in VideosResponses : VideosResponds(r)
    \/ \E key \in ApiKeys : FetchSingleThumbnail(key, "v1")
    \/ \E r \in SingleResponses : SingleResponds(r)
    \/ \E key \in ApiKeys, t \in Titles, d \in Descriptions, o \in OriginalThumbnails :
           ProposeNewThumbnail(key, t, d, o)
    \/ \E r \in TextResponses : TextGenerationResponds(r)
    \/ \E r \in ImageResponses : ImageGenerationResponds(r)

Spec == Init /\ [][Next]_vars

----------------------------------------------------------------------------
(* Properties                                                              *)

Fetching == op = "fetch_thumbnails"
Proposing == op = "propose_new_thumbnail"

HasChannelIdPattern(url) == \E i \in 1..Len(url) : MatchChannelIdAt(url, i)

HasHandleToken(url) ==
    \E i \in 1..Len(url) : url[i] = "@" /\ i < Len(url) /\ IsHandleChar(url[i + 1])

NoSearchCall == \A i \in 1..Len(calls) : calls[i].endpoint # "search"

ConfigurationErrors == {ErrHandleNeedsApiKey, ErrApiKeyMissing}

IsAsciiIdChar(c) == c \in Lower \cup Upper \cup Digits \cup {"_", "-"}

ExampleUrl == UrlChannel \o ExampleId

\* C1: propose_new_thumbnail never fails outward: whatever the credential, the
\* library and the outcomes of the text and image generation are, the call
\* ends by returning a result and no exception reaches the caller.
C1_NeverFailsOutward ==
    (Proposing /\ pc = "done") => outcome = "returned"

\* C2 as stated: every reference that embeds a channel ID, the 23-character
\* "UCabcdefghijklmnopqrstu" of the example url included, resolves to that ID
\* without a search call, with or without an API key.
C2_EmbeddedIdResolvesDirectly ==
    (Fetching /\ (HasChannelIdPattern(channel_url) \/ channel_url = ExampleUrl))
    => /\ NoSearchCall
       /\ Truthy(channel_id)
       /\ channel_url = ExampleUrl => channel_id = ExampleId

\* C2 amended: a reference containing UC followed by 22 characters of [\w-]
\* resolves to the leftmost such 24-character substring without a search call,
\* with or without an API key or an @handle token; the example url, whose ID
\* has 23 characters, is rejected as an unrecognized format without any request.
C2_LeftmostPatternResolvesDirectly ==
    Fetching =>
      /\ HasChannelIdPattern(channel_url) =>
           /\ NoSearchCall
           /\ handle = None
           /\ \E i \in 1..Len(channel_url) :
                 /\ MatchChannelIdAt(channel_url, i)
                 /\ \A j \in 1..(i - 1) : ~MatchChannelIdAt(channel_url, j)
                 /\ channel_id = SubSeq(channel_url, i, i + 1 + IdBodyLen)
      /\ channel_url = ExampleUrl =>
           /\ outcome = "raised"
           /\ error = ErrChannelIdUndetermined
           /\ calls = <<>>

C2_Witness ==
    /\ Fetching
    /\ channel_url = UrlChannel \o FoundId
    /\ channel_id = FoundId
    /\ pc = "channels"

\* C3 as stated: without an API key fetch_thumbnails issues no request and
\* fails with a configuration error for every reference that contains an
\* @handle token or begins with "@", and for every reference resolved to a
\* channel ID without lookup.
C3_NoKeyIsConfigurationError ==
    (Fetching /\ ~Truthy(api_key)) =>
      /\ calls = <<>>
      /\ (HasHandleToken(channel_url) \/ StartsWith(channel_url, <<"@">>)
          \/ Truthy(channel_id))
         => (outcome = "raised" /\ error \in ConfigurationErrors)

\* C3 amended: without an API key fetch_thumbnails issues no request; it fails
\* with a configuration error for every reference resolved to a channel ID
\* without lookup and for every reference that yields a non-empty handle (an
\* "@" followed by a handle character, or a leading "@" with some other
\* character after the leading "@"s); a reference made of "@" characters only
\* fails with the unrecognized-format error.
C3_NoKeyNonEmptyHandleIsConfigurationError ==
    (Fetching /\ ~Truthy(api_key)) =>
      /\ calls = <<>>
      /\ outcome = "raised"
      /\ (\/ HasHandleToken(channel_url)
          \/ /\ StartsWith(channel_url, <<"@">>)
             /\ \E i \in 1..Len(channel_url) : channel_url[i] # "@"
          \/ Truthy(channel_id))
         => error \in ConfigurationErrors
      /\ Truthy(channel_id) => error = ErrApiKeyMissing
      /\ (channel_url # <<>> /\ \A i \in 1..Len(channel_url) : channel_url[i] = "@")
         => error = ErrChannelIdUndetermined

C3_Witness ==
    /\ Fetching
    /\ ~Truthy(api_key)
    /\ channel_url = <<"@", "!">>
    /\ error = ErrHandleNeedsApiKey
    /\ calls = <<>>

\* C4: when the one channel search made for a handle comes back without a
\* channel ID, fetch_thumbnails fails with an error the caller can tell from
\* the unrecognized-format error, and no request follows the search.
C4_NotFoundIsDistinct ==
    (/\ Fetching
     /\ pc = "done"
     /\ Len(calls) >= 1
     /\ calls[1].endpoint = "search"
     /\ ~Truthy(channel_id)
     /\ error # ErrHTTP)
    => /\ Len(calls) = 1
       /\ outcome = "raised"
       /\ error # ErrChannelIdUndetermined

\* C5: every result returned by propose_new_thumbnail carries an idea that is
\* the trimmed output of the text generation or the fixed message, and the
\* fixed message exactly when no credential is configured, whether or not the
\* generation library is available.
C5_IdeaIsOutputOrFixedMessage ==
    (Proposing /\ outcome = "returned") =>
      /\ (gemini_result.idea = FixedMessage) <=> ~Truthy(api_key)
      /\ \/ gemini_result.idea = FixedMessage
         \/ response.status = "ok" /\ gemini_result.idea = Strip(response.text)

\* the video records behind the returned thumbnail entries, in order
NormalizedRecords ==
    IF op \in {"fetch_thumbnails", "fetch_single_thumbnail"} /\ outcome = "returned"
       /\ thumbnails # <<>>
    THEN Items(data)
    ELSE <<>>

TiersOf(record) == Get(Get(record, "snippet", EmptyDict), "thumbnails", EmptyDict)

Counter(record, name) ==
    ParseFloat(Get(Get(record, "statistics", EmptyDict), name, Zero))

\* C6: thumbnail_url is the url of the first tier present in the order maxres,
\* standard, high, default; a lower tier is taken when the higher ones are
\* absent; it is the empty string exactly when the record has none of the four
\* tiers, and it is never None.
C6_FirstPresentTierWins ==
    \A i \in 1..Len(NormalizedRecords) :
        LET tiers == TiersOf(NormalizedRecords[i])
            url == thumbnails[i].thumbnail_url
        IN  /\ "maxres" \in DOMAIN tiers => url = TierUrl("maxres")
            /\ ("standard" \in DOMAIN tiers /\ "maxres" \notin DOMAIN tiers)
               => url = TierUrl("standard")
            /\ ("high" \in DOMAIN tiers /\ {"maxres", "standard"} \cap DOMAIN tiers = {})
               => url = TierUrl("high")
            /\ ("default" \in DOMAIN tiers
                /\ {"maxres", "standard", "high"} \cap DOMAIN tiers = {})
               => url = TierUrl("default")
            /\ (url = "") <=> (TierNames \cap DOMAIN tiers = {})
            /\ url # NoneStr

C6_Witness ==
    /\ op = "fetch_single_thumbnail"
    /\ outcome = "returned"
    /\ Len(thumbnails) = 1
    /\ DOMAIN TiersOf(Items(data)[1]) = {"standard", "default"}
    /\ thumbnails[1].thumbnail_url = "sddefault.jpg"

\* C7: for non-negative counters, missing ones counting as 0, ctr_score lies
\* in [0, 100]; with no views any like or comment gives exactly 100; 1000
\* views, 50 likes and 20 comments give 72.0.  (Scores are in hundredths.)
C7_ScoreWithinBounds ==
    \A i \in 1..Len(NormalizedRecords) :
        LET views == Counter(NormalizedRecords[i], "viewCount")
            likes == Counter(NormalizedRecords[i], "likeCount")
            comments == Counter(NormalizedRecords[i], "commentCount")
            score == thumbnails[i].ctr_score
        IN  /\ 0 <= score /\ score <= 100 * 100
            /\ (views = 0 /\ (likes > 0 \/ comments > 0)) => score = 100 * 100
            /\ (views = 1000 /\ likes = 50 /\ comments = 20) => score = 7200

C7_Witness ==
    /\ op = "fetch_single_thumbnail"
    /\ outcome = "returned"
    /\ Len(thumbnails) = 1
    /\ Get(Items(data)[1], "statistics", EmptyDict) = ExampleStats
    /\ thumbnails[1].ctr_score = 7200

ImageGenerationFailed ==
    \/ image_response.status \in {"exception", "timeout", "none", "not bytes"}
    \/ image_response.status = "ok" /\ image_response.generated_images = <<>>

\* C8: with a credential and a successful text generation, a failed image
\* generation (exception, timeout, no image) is swallowed: the result carries
\* the generated idea and the placeholder; a generated image replaces the
\* placeholder only when the image call returned at least one image.
C8_ImageFailureKeepsIdeaAndPlaceholder ==
    (Proposing /\ pc = "done" /\ response.status = "ok") =>
      /\ outcome = "returned"
      /\ gemini_result.idea = Strip(response.text)
      /\ ImageGenerationFailed
         => gemini_result.image_data_url = _placeholder_image(title)
      /\ gemini_result.image_data_url # _placeholder_image(title)
         => /\ image_response.status = "ok"
            /\ Len(image_response.generated_images) >= 1
            /\ gemini_result.image_data_url
               = DataUrl(image_response.generated_images[1])

C8_Witness ==
    /\ Proposing
    /\ outcome = "returned"
    /\ response.status = "ok"
    /\ image_response.status = "timeout"
    /\ gemini_result.idea = <<"i">>
    /\ gemini_result.image_data_url = _placeholder_image(title)

\* C9: without a generation credential propose_new_thumbnail issues no
\* generation request and returns the fixed message with the placeholder
\* image, which is never empty, for every title, the empty one included.
C9_NoCredentialNoCalls ==
    (Proposing /\ ~Truthy(api_key)) =>
      /\ pc = "done"
      /\ outcome = "returned"
      /\ gen_calls = <<>>
      /\ gemini_result.idea = FixedMessage
      /\ gemini_result.image_data_url.prefix = "data:image/png;base64,"
      /\ gemini_result.image_data_url.encoded.canvas = <<1280, 720>>
      /\ gemini_result.image_data_url.encoded.text # <<>>
      /\ gemini_result.image_data_url.encoded.text =
           IF \E i \in 1..Len(title) : title[i] # " "
           THEN SubSeq(title, 1,
                       CHOOSE n \in 1..Len(title) :
                           /\ title[n] # " "
                           /\ \A m \in (n + 1)..Len(title) : title[m] = " ")
           ELSE DefaultPlaceholderText

C9_Witness ==
    /\ Proposing
    /\ ~Truthy(api_key)
    /\ title = <<>>
    /\ outcome = "returned"
    /\ gemini_result.idea = FixedMessage
    /\ gemini_result.image_data_url.encoded.text = DefaultPlaceholderText

\* C10: a channel ID returned without a request has the canonical shape, UC
\* followed by exactly 22 characters of [A-Za-z0-9_-]; a reference that only
\* starts with UC is not returned as a channel ID.
C10_DirectIdIsCanonical ==
    (Fetching /\ handle = None /\ Truthy(channel_id)) =>
      /\ Len(channel_id) = 2 + IdBodyLen
      /\ channel_id[1] = "U"
      /\ channel_id[2] = "C"
      /\ \A j \in 3..Len(channel_id) : IsAsciiIdChar(channel_id[j])

====
